---- MODULE Spec2Model ----
(***************************************************************************)
(* The ESLint language server of eslint-server/src/server.ts as a state    *)
(* machine: the documents store, the per-document library promises, the    *)
(* microtask queue on which promise callbacks run, the fix registry        *)
(* (codeActions), the two dedup stores, the batches of validateMany and    *)
(* the messages each step sends over the connection.                       *)
(***************************************************************************)
EXTENDS Integers, Sequences, FiniteSets, TLC

\* ------------------------------------------------------------ bounds

MaxVersion == 2      \* document versions run 1..MaxVersion
MaxPromises == 2     \* library promises created over a run
MaxBatches == 1      \* validateMany calls in flight together
MaxWaiting == 2      \* callbacks attached to one pending library promise
MaxProblems == 3     \* problems in one engine report (fix session)
MaxOffset == 1       \* edit offsets run 0..MaxOffset (fix session)
MaxContext == 1      \* context diagnostics of one code-action request

\* ------------------------------------------------------------ values

\* A missing ruleId (null) and a missing object (undefined)
Null == "null"
Undefined == [undefined |-> TRUE]

\* enum Status, server.ts 30-34; 0 stands for the closure's `undefined`
StatusOk == 1
StatusWarn == 2
StatusError == 3

UriFile(path) == <<"file", path>>
uriToFilePath(uri) == uri[2]

DocPaths == {"/a.js", "/.eslintrc.js"}
URIs == {UriFile(p) : p \in DocPaths}
ConfigPaths == {"/.eslintrc.js", "/.eslintrc"}
LanguageIds == {"javascript", "plaintext"}
RuleIds == {"semi", "quotes"}

supportedLanguages == {"javascript", "javascriptreact"}

Max(a, b) == IF a >= b THEN a ELSE b

\* ------------------------------------------------------------ diagnostics

convertSeverity(severity) == IF severity = 1 THEN 2 ELSE 1

\* A problem carries line, column, endLine, endColumn (-1 when the engine
\* gives none), severity, ruleId (Null when none) and fix (Undefined when none).
makeDiagnostic(problem) ==
    LET startLine == Max(0, problem.line - 1)
        startChar == Max(0, problem.column - 1)
        endLine == IF problem.endLine # -1 THEN Max(0, problem.endLine - 1) ELSE startLine
        endChar == IF problem.endColumn # -1 THEN Max(0, problem.endColumn - 1) ELSE startChar
    IN  [ severity |-> convertSeverity(problem.severity),
          range |-> <<startLine, startChar, endLine, endChar>>,
          code |-> problem.ruleId ]

computeKey(diagnostic) == <<diagnostic.range, diagnostic.code>>

\* An assignment that leaves an existing key's value alone.
PutFirst(edits, key, value) ==
    IF \E i \in 1..Len(edits) : edits[i][1] = key
    THEN edits
    ELSE Append(edits, <<key, value>>)

\* The per-document map is a sequence of <<key, AutoFix>> in the insertion
\* order Object.keys() reports; assigning an existing key keeps its place.
Put(edits, key, value) ==
    IF \E i \in 1..Len(edits) : edits[i][1] = key
    THEN [i \in 1..Len(edits) |-> IF edits[i][1] = key THEN <<key, value>> ELSE edits[i]]
    ELSE Append(edits, <<key, value>>)

recordCodeAction(edits, version, diagnostic, problem) ==
    IF problem.fix = Undefined \/ problem.ruleId = Null
    THEN edits
    ELSE Put(edits, computeKey(diagnostic),
             [ label |-> <<"Fix this", problem.ruleId, "problem">>,
               documentVersion |-> version,
               ruleId |-> problem.ruleId,
               edit |-> problem.fix ])

RECURSIVE RecordAll(_, _, _)
RecordAll(edits, version, messages) ==
    IF messages = <<>> THEN edits
    ELSE RecordAll(recordCodeAction(edits, version, makeDiagnostic(Head(messages)), Head(messages)),
                   version, Tail(messages))

Diagnostics(messages) == [i \in 1..Len(messages) |-> makeDiagnostic(messages[i])]

\* ------------------------------------------------------------ class Fixes

\* overlaps comparing the two ends.
overlapsEnds(lastEdit, newEdit) ==
    lastEdit # Undefined /\ lastEdit.edit.range[2] > newEdit.edit.range[2]

overlaps(lastEdit, newEdit) ==
    lastEdit # Undefined /\ lastEdit.edit.range[2] > newEdit.edit.range[1]

compare(a, b) ==
    LET d == a.edit.range[1] - b.edit.range[1]
    IN  IF d # 0 THEN d
        ELSE IF a.edit.range[2] = 0 THEN -1
        ELSE IF b.edit.range[2] = 0 THEN 1
        ELSE a.edit.range[2] - b.edit.range[2]

keys(edits) == [i \in 1..Len(edits) |-> edits[i][1]]

Lookup(edits, key) ==
    IF \E i \in 1..Len(edits) : edits[i][1] = key
    THEN (CHOOSE e \in {edits[i] : i \in 1..Len(edits)} : e[1] = key)[2]
    ELSE Undefined

isEmpty(edits) == Len(keys(edits)) = 0

getDocumentVersion(edits) == Lookup(edits, keys(edits)[1]).documentVersion

RECURSIVE getScoped(_, _)
getScoped(edits, diagnostics) ==
    IF diagnostics = <<>> THEN <<>>
    ELSE LET editInfo == Lookup(edits, computeKey(Head(diagnostics)))
         IN  (IF editInfo # Undefined THEN <<editInfo>> ELSE <<>>)
                 \o getScoped(edits, Tail(diagnostics))

\* Array.prototype.sort(compare): the array in an order the comparator
\* accepts, elements it calls equal left in the order they came. Where the
\* comparator puts each of two elements before the other, the engine may
\* return them either way round, so sort is the set of possible results.
Orders(n) == { p \in [1..n -> 1..n] : \A i, j \in 1..n : i # j => p[i] # p[j] }

sort(array) ==
    { [i \in 1..Len(array) |-> array[p[i]]] :
        p \in { q \in Orders(Len(array)) :
                  \A i, j \in 1..Len(array) :
                      i < j => \/ compare(array[q[i]], array[q[j]]) < 0
                               \/ compare(array[q[i]], array[q[j]]) = 0 /\ q[i] < q[j] } }

getAllSorted(edits) == sort([i \in 1..Len(edits) |-> edits[i][2]])

RECURSIVE Scan(_, _, _)
Scan(result, last, rest) ==
    IF rest = <<>> THEN result
    ELSE IF ~overlaps(last, Head(rest))
         THEN Scan(Append(result, Head(rest)), Head(rest), Tail(rest))
         ELSE Scan(result, last, Tail(rest))

\* getOverlapFree() once getAllSorted() has returned sorted.
OverlapFree(sorted) ==
    IF Len(sorted) <= 1 THEN sorted
    ELSE Scan(<<sorted[1]>>, sorted[1], Tail(sorted))

getOverlapFree(edits) == { OverlapFree(sorted) : sorted \in getAllSorted(edits) }

\* ------------------------------------------------------------ errors

\* A thrown error: messageTemplate (Null when none) and message, a record of
\* its shape, the file it names, and whether it starts with "CLI: ";
\* shape "none" is an error without a message.
NoConfigMessage == [shape |-> "No ESLint configuration found.", file |-> "", cli |-> FALSE]

Error(template, shape, file, cli) ==
    [messageTemplate |-> template, message |-> [shape |-> shape, file |-> file, cli |-> cli]]

getMessage(err, uri) ==
    IF err.message.shape # "none"
    THEN [err.message EXCEPT !.cli = FALSE]
    ELSE [shape |-> "An unknown error occured while validating file", file |-> uriToFilePath(uri), cli |-> FALSE]

isNoConfigFoundError(error) ==
    error.messageTemplate = "no-config-found" \/ error.message = NoConfigMessage

\* The three patterns of tryHandleConfigError; "" when none matches.
ConfigFileName(error) ==
    IF error.message.shape \in {"Cannot read config file", "Configuration for rule", "Cannot find module"}
    THEN error.message.file
    ELSE ""

\* ------------------------------------------------------------ state

VARIABLES
    documents,            \* TextDocuments: the open documents, in the order opened
    settings,             \* settings.eslint.run, Null before the first settings event
    document2Library,     \* uri -> library promise (0: no entry)
    promises,             \* the library promises: state, uri, callbacks waiting
    mq,                   \* promise callbacks ready to run, in order
    codeActions,          \* uri -> recorded fixes (<<>>: no entry)
    noConfigReported,     \* uris with an entry
    configErrorReported,  \* config file paths with an entry
    batches,              \* the closures of the validateMany calls in flight
    published,            \* uri -> the document the diagnostics the client shows were
                          \* computed from (NoDocument: none sent yet, or the empty
                          \* list of a close)
    out,                  \* the messages the last step sent over the connection
    step                  \* the handler or callback that ran last

vars == << documents, settings, document2Library, promises, mq, codeActions,
           noConfigReported, configErrorReported, batches, published, out, step >>

PromiseIds == 1..MaxPromises
BatchIds == 1..MaxBatches

NoPromise == [state |-> "unused", uri |-> <<>>, waiting |-> <<>>]
NoBatch == [state |-> "free", status |-> 0, tracker |-> {}, remaining |-> 0, worst |-> 0]

\* The document object a validation pass holds: its version, and whether it
\* is the open document of the store or one closed since.
NoDocument == [version |-> 0, object |-> "none"]

Init ==
    /\ documents = <<>>
    /\ settings = Null
    /\ document2Library = [u \in URIs |-> 0]
    /\ promises = [p \in PromiseIds |-> NoPromise]
    /\ mq = <<>>
    /\ codeActions = [u \in URIs |-> <<>>]
    /\ noConfigReported = {}
    /\ configErrorReported = {}
    /\ batches = [b \in BatchIds |-> NoBatch]
    /\ published = [u \in URIs |-> NoDocument]
    /\ out = <<>>
    /\ step = [op |-> "init"]

\* ------------------------------------------------------------ documents store

IsOpen(uri) == \E i \in 1..Len(documents) : documents[i].uri = uri

\* documents.get(uri)
get(uri) ==
    IF IsOpen(uri)
    THEN documents[CHOOSE i \in 1..Len(documents) : documents[i].uri = uri]
    ELSE Undefined

Remove(seq, uri) == SelectSeq(seq, LAMBDA d : d.uri # uri)

ignoreTextDocument(document) ==
    document.languageId \notin supportedLanguages \/ document2Library[document.uri] = 0

\* A callback holds the document object it was created with. The object of
\* an open document is updated in place (closedAt = 0: read its version from
\* the store); once closed it keeps the version it had (closedAt).
Callback(kind, uri, batch) ==
    [kind |-> kind, uri |-> uri, closedAt |-> 0, batch |-> batch, library |-> "pending"]

Version(callback) ==
    IF callback.closedAt = 0 THEN get(callback.uri).version ELSE callback.closedAt

Document(callback) ==
    [ version |-> Version(callback),
      object |-> IF callback.closedAt = 0 THEN "open" ELSE "closed" ]

\* promise.then(callback) on the promises and the queue in st: the callback
\* waits while the promise is pending and is queued once it is settled.
Then(st, p, callback) ==
    IF st.promises[p].state = "pending"
    THEN [st EXCEPT !.promises[p].waiting = Append(@, callback)]
    ELSE [st EXCEPT !.mq = Append(@, [callback EXCEPT !.library = st.promises[p].state])]

HasRoom(p) == promises[p].state # "pending" \/ Len(promises[p].waiting) < MaxWaiting

validateSingle(st, p, uri) == Then(st, p, Callback("validateSingle", uri, 0))

\* ------------------------------------------------------------ document events

Unused == {p \in PromiseIds : promises[p].state = "unused"}

\* documents.onDidOpen, then documents.onDidChangeContent, which the store
\* fires for the opened document as well.
DidOpen(uri, languageId) ==
    /\ mq = <<>>
    /\ ~IsOpen(uri)
    /\ LET supported == languageId \in supportedLanguages
           create == supported /\ document2Library[uri] = 0
       IN  /\ create => Unused # {}
           /\ LET p == IF create THEN CHOOSE q \in Unused : \A r \in Unused : q <= r
                       ELSE document2Library[uri]
                  created == IF create
                             THEN [promises EXCEPT ![p] = [state |-> "pending", uri |-> uri, waiting |-> <<>>]]
                             ELSE promises
                  st == IF settings = "onType" /\ supported
                        THEN validateSingle([promises |-> created, mq |-> mq], p, uri)
                        ELSE [promises |-> created, mq |-> mq]
              IN  /\ documents' = Append(documents, [uri |-> uri, version |-> 1, languageId |-> languageId])
                  /\ document2Library' = [document2Library EXCEPT ![uri] = p]
                  /\ promises' = st.promises
                  /\ mq' = st.mq
    /\ out' = <<>>
    /\ step' = [op |-> "onDidOpen", uri |-> uri]
    /\ UNCHANGED << settings, codeActions, noConfigReported, configErrorReported, batches, published >>

\* documents.onDidChangeContent: the store has updated the document in place.
DidChangeContent(uri) ==
    /\ mq = <<>>
    /\ IsOpen(uri)
    /\ get(uri).version < MaxVersion
    /\ LET validates == settings = "onType" /\ ~ignoreTextDocument(get(uri))
           st == IF validates
                 THEN validateSingle([promises |-> promises, mq |-> mq], document2Library[uri], uri)
                 ELSE [promises |-> promises, mq |-> mq]
       IN  /\ validates => HasRoom(document2Library[uri])
           /\ promises' = st.promises
           /\ mq' = st.mq
    /\ documents' = [i \in 1..Len(documents) |->
                        IF documents[i].uri = uri
                        THEN [documents[i] EXCEPT !.version = @ + 1]
                        ELSE documents[i]]
    /\ out' = <<>>
    /\ step' = [op |-> "onDidChangeContent", uri |-> uri]
    /\ UNCHANGED << settings, document2Library, codeActions, noConfigReported,
                    configErrorReported, batches, published >>

\* documents.onDidSave; a save that validates nothing changes nothing.
DidSave(uri) ==
    /\ mq = <<>>
    /\ IsOpen(uri)
    /\ settings = "onSave" /\ ~ignoreTextDocument(get(uri))
    /\ HasRoom(document2Library[uri])
    /\ LET st == validateSingle([promises |-> promises, mq |-> mq], document2Library[uri], uri)
       IN  /\ promises' = st.promises
           /\ mq' = st.mq
    /\ out' = <<>>
    /\ step' = [op |-> "onDidSave", uri |-> uri]
    /\ UNCHANGED << documents, settings, document2Library, codeActions, noConfigReported,
                    configErrorReported, batches, published >>

\* The callbacks that wait hold the closed document object from now on.
Close(callbacks, uri, version) ==
    [i \in 1..Len(callbacks) |->
        IF callbacks[i].uri = uri /\ callbacks[i].closedAt = 0
        THEN [callbacks[i] EXCEPT !.closedAt = version]
        ELSE callbacks[i]]

\* A settled promise that document2Library no longer names is garbage.
Drop(promise) == IF promise.state = "pending" THEN promise ELSE NoPromise

\* onDidClose cancelling the validations of the document that still wait
\* for its library.
DidCloseCancelling(uri) ==
    /\ mq = <<>>
    /\ IsOpen(uri)
    /\ documents' = Remove(documents, uri)
    /\ LET held == [p \in PromiseIds |->
                       [promises[p] EXCEPT !.waiting = SelectSeq(@, LAMBDA c : c.uri # uri)]]
       IN  IF ignoreTextDocument(get(uri))
           THEN /\ promises' = held
                /\ out' = <<>>
                /\ UNCHANGED << document2Library, published >>
           ELSE /\ document2Library' = [document2Library EXCEPT ![uri] = 0]
                /\ promises' = [held EXCEPT ![document2Library[uri]] = Drop(@)]
                /\ published' = [published EXCEPT ![uri] = NoDocument]
                /\ out' = << [type |-> "diagnostics", uri |-> uri, count |-> 0] >>
    /\ step' = [op |-> "onDidClose", uri |-> uri]
    /\ UNCHANGED << settings, mq, codeActions, noConfigReported, configErrorReported, batches >>

\* documents.onDidClose: the store has removed the document.
DidClose(uri) ==
    /\ mq = <<>>
    /\ IsOpen(uri)
    /\ documents' = Remove(documents, uri)
    /\ LET held == [p \in PromiseIds |->
                       [promises[p] EXCEPT !.waiting = Close(@, uri, get(uri).version)]]
       IN  IF ignoreTextDocument(get(uri))
           THEN /\ promises' = held
                /\ out' = <<>>
                /\ UNCHANGED << document2Library, published >>
           ELSE /\ document2Library' = [document2Library EXCEPT ![uri] = 0]
                /\ promises' = [held EXCEPT ![document2Library[uri]] = Drop(@)]
                /\ published' = [published EXCEPT ![uri] = NoDocument]
                /\ out' = << [type |-> "diagnostics", uri |-> uri, count |-> 0] >>
    /\ step' = [op |-> "onDidClose", uri |-> uri]
    /\ UNCHANGED << settings, mq, codeActions, noConfigReported, configErrorReported, batches >>

\* The library promise settles. "library": the module is resolved and loaded;
\* "null": Files.resolve rejected, the handler asks for the library and
\* returns null; "rejected": the fulfilment handler threw (require failed or
\* no CLIEngine), which the rejection handler of the same then() never sees.
ResolveLibrary(p, outcome) ==
    /\ mq = <<>>
    /\ promises[p].state = "pending"
    /\ mq' = [i \in 1..Len(promises[p].waiting) |->
                 [promises[p].waiting[i] EXCEPT !.library = outcome]]
    /\ promises' = [promises EXCEPT ![p] =
                       IF document2Library[promises[p].uri] = p
                       THEN [state |-> outcome, uri |-> @.uri, waiting |-> <<>>]
                       ELSE NoPromise]
    /\ out' = IF outcome = "null"
              THEN << [type |-> "noLibrary", uri |-> promises[p].uri] >>
              ELSE <<>>
    /\ step' = [op |-> "document2Library", uri |-> promises[p].uri, library |-> outcome]
    /\ UNCHANGED << documents, settings, document2Library, codeActions, noConfigReported,
                    configErrorReported, batches, published >>

\* ------------------------------------------------------------ validation

\* What the engine does when asked: it reports messages, or it throws, from
\* the CLIEngine constructor or from executeOnText.
Report(messages) == [type |-> "report", messages |-> messages]
Throw(at, error) == [type |-> "throw", at |-> at, error |-> error]

\* validate(document, library): edits is the document's entry of codeActions
\* afterwards, sent the diagnostics notification unless the engine threw.
\* validate deleting the document's fixes as its first statement.
validateClearedFirst(uri, document, outcome) ==
    IF outcome.type = "throw"
    THEN [ threw |-> TRUE, error |-> outcome.error, edits |-> <<>>,
           sent |-> <<>>, published |-> published[uri] ]
    ELSE [ threw |-> FALSE, error |-> Undefined,
           edits |-> RecordAll(<<>>, document.version, outcome.messages),
           sent |-> << [type |-> "diagnostics", uri |-> uri, count |-> Len(Diagnostics(outcome.messages))] >>,
           published |-> document ]

\* validate giving up, before it asks the engine, on a document that is no
\* longer the open one.
validateOpen(uri, document, outcome) ==
    IF document.object = "closed"
    THEN [ threw |-> FALSE, error |-> Undefined, edits |-> codeActions[uri],
           sent |-> <<>>, published |-> published[uri] ]
    ELSE IF outcome.type = "throw"
    THEN [ threw |-> TRUE, error |-> outcome.error,
           edits |-> IF outcome.at = "construct" THEN codeActions[uri] ELSE <<>>,
           sent |-> <<>>, published |-> published[uri] ]
    ELSE [ threw |-> FALSE, error |-> Undefined,
           edits |-> RecordAll(<<>>, document.version, outcome.messages),
           sent |-> << [type |-> "diagnostics", uri |-> uri, count |-> Len(Diagnostics(outcome.messages))] >>,
           published |-> document ]

validate(uri, document, outcome) ==
    IF outcome.type = "throw"
    THEN [ threw |-> TRUE, error |-> outcome.error,
           edits |-> IF outcome.at = "construct" THEN codeActions[uri] ELSE <<>>,
           sent |-> <<>>, published |-> published[uri] ]
    ELSE [ threw |-> FALSE, error |-> Undefined,
           edits |-> RecordAll(<<>>, document.version, outcome.messages),
           sent |-> << [type |-> "diagnostics", uri |-> uri, count |-> Len(Diagnostics(outcome.messages))] >>,
           published |-> document ]

\* The handlers work on st: the two dedup stores and the messages sent so
\* far; each leaves its Status in st.status, 0 for undefined.
\* tryHandleNoConfig without the line that records the uri.
tryHandleNoConfigUnrecorded(error, uri, st) ==
    IF ~isNoConfigFoundError(error)
    THEN [st EXCEPT !.status = 0]
    ELSE IF uri \notin st.noConfigReported
    THEN [st EXCEPT !.status = StatusWarn,
                    !.sent = Append(@, [type |-> "noConfig", message |-> getMessage(error, uri), uri |-> uri])]
    ELSE [st EXCEPT !.status = StatusWarn]

tryHandleNoConfig(error, uri, st) ==
    IF ~isNoConfigFoundError(error)
    THEN [st EXCEPT !.status = 0]
    ELSE IF uri \notin st.noConfigReported
    THEN [st EXCEPT !.status = StatusWarn,
                    !.noConfigReported = @ \cup {uri},
                    !.sent = Append(@, [type |-> "noConfig", message |-> getMessage(error, uri), uri |-> uri])]
    ELSE [st EXCEPT !.status = StatusWarn]

\* handleFileName without the line that marks the path as reported.
handleFileNameUnrecorded(filename, error, uri, st) ==
    IF filename \notin st.configErrorReported
    THEN [st EXCEPT !.status = StatusWarn,
                    !.sent = @ \o << [type |-> "console.warn", message |-> getMessage(error, uri)] >>
                               \o (IF get(UriFile(filename)) = Undefined
                                   THEN << [type |-> "showInformationMessage", message |-> getMessage(error, uri)] >>
                                   ELSE <<>>)]
    ELSE [st EXCEPT !.status = StatusWarn]

handleFileName(filename, error, uri, st) ==
    IF filename \notin st.configErrorReported
    THEN [st EXCEPT !.status = StatusWarn,
                    !.configErrorReported = @ \cup {filename},
                    !.sent = @ \o << [type |-> "console.warn", message |-> getMessage(error, uri)] >>
                               \o (IF get(UriFile(filename)) = Undefined
                                   THEN << [type |-> "showInformationMessage", message |-> getMessage(error, uri)] >>
                                   ELSE <<>>)]
    ELSE [st EXCEPT !.status = StatusWarn]

tryHandleConfigError(error, uri, st) ==
    IF error.message.shape = "none"
    THEN [st EXCEPT !.status = 0]
    ELSE IF ConfigFileName(error) # ""
    THEN handleFileName(ConfigFileName(error), error, uri, st)
    ELSE [st EXCEPT !.status = 0]

showErrorMessage(error, uri, st) ==
    [st EXCEPT !.status = StatusError,
               !.sent = Append(@, [type |-> "showErrorMessage", message |-> getMessage(error, uri)])]

\* The handlers of validateSingle without tryHandleConfigError.
singleErrorHandlersShort == << "tryHandleNoConfig", "showErrorMessage" >>

singleErrorHandlers == << "tryHandleNoConfig", "tryHandleConfigError", "showErrorMessage" >>
manyErrorHandlers == << "tryHandleNoConfig", "tryHandleConfigError" >>

Handler(name, error, uri, st) ==
    CASE name = "tryHandleNoConfig" -> tryHandleNoConfig(error, uri, st)
      [] name = "tryHandleConfigError" -> tryHandleConfigError(error, uri, st)
      [] name = "showErrorMessage" -> showErrorMessage(error, uri, st)

\* The loop over the handlers without the break: the first status stays.
RECURSIVE RunHandlersAll(_, _, _, _)
RunHandlersAll(handlers, error, uri, st) ==
    IF handlers = <<>> THEN st
    ELSE LET r == Handler(Head(handlers), error, uri, st)
         IN  IF r.status # 0
             THEN [RunHandlersAll(Tail(handlers), error, uri, r) EXCEPT !.status = r.status]
             ELSE RunHandlersAll(Tail(handlers), error, uri, r)

\* for (let handler of handlers) { status = handler(...); if (status) break; }
RECURSIVE RunHandlers(_, _, _, _)
RunHandlers(handlers, error, uri, st) ==
    IF handlers = <<>> THEN st
    ELSE LET r == Handler(Head(handlers), error, uri, st)
         IN  IF r.status # 0 THEN r ELSE RunHandlers(Tail(handlers), error, uri, r)

Stores(status, sent) ==
    [ status |-> status, noConfigReported |-> noConfigReported,
      configErrorReported |-> configErrorReported, sent |-> sent ]

StatusNotification(state) == [type |-> "status", state |-> state]

\* The callback of validateSingle on the document's library promise.
ValidateSingleCallback(outcome) ==
    /\ mq # <<>>
    /\ Head(mq).kind = "validateSingle"
    /\ mq' = Tail(mq)
    /\ LET cb == Head(mq)
           uri == cb.uri
       IN  IF cb.library # "library"
           THEN \* a rejected promise never calls it; a null library returns
                /\ out' = <<>>
                /\ step' = [op |-> "validateSingle", uri |-> uri, library |-> cb.library]
                /\ UNCHANGED << codeActions, published, noConfigReported, configErrorReported >>
           ELSE LET v == validate(uri, Document(cb), outcome)
                    h == RunHandlers(singleErrorHandlers, v.error, uri, Stores(0, <<>>))
                    status == IF h.status # 0 THEN h.status ELSE StatusError
                IN  /\ codeActions' = [codeActions EXCEPT ![uri] = v.edits]
                    /\ published' = [published EXCEPT ![uri] = v.published]
                    /\ IF ~v.threw
                       THEN /\ out' = Append(v.sent, StatusNotification(StatusOk))
                            /\ UNCHANGED << noConfigReported, configErrorReported >>
                       ELSE /\ out' = Append(h.sent, StatusNotification(status))
                            /\ noConfigReported' = h.noConfigReported
                            /\ configErrorReported' = h.configErrorReported
                    /\ step' = [op |-> "validateSingle", uri |-> uri, library |-> cb.library,
                                threw |-> v.threw, error |-> v.error, outcome |-> outcome,
                                document |-> Document(cb), before |-> published[uri]]
    /\ UNCHANGED << documents, settings, document2Library, promises, batches >>

\* ------------------------------------------------------------ validateMany

\* Promise.all's continuation, queued once the batch has settled.
AllCallback(b, settled) ==
    [kind |-> "all", uri |-> <<>>, closedAt |-> 0, batch |-> b, library |-> settled]

\* One attempt of batch b has run. A first rejection rejects Promise.all at
\* once; the last fulfilment fulfils it; a batch whose continuation has run
\* is forgotten with its last attempt.
Settle(batch, rejected) ==
    LET left == batch.remaining - 1
    IN  CASE batch.state = "waiting" /\ rejected -> [batch EXCEPT !.remaining = left, !.state = "settled"]
          [] batch.state = "waiting" /\ ~rejected /\ left = 0 -> [batch EXCEPT !.remaining = left, !.state = "settled"]
          [] batch.state = "done" /\ left = 0 -> NoBatch
          [] OTHER -> [batch EXCEPT !.remaining = left]

Settles(batch, rejected) ==
    batch.state = "waiting" /\ (rejected \/ batch.remaining = 1)

\* The callback of one document's attempt in validateMany.
ValidateManyCallback(outcome) ==
    /\ mq # <<>>
    /\ Head(mq).kind = "validateMany"
    /\ LET cb == Head(mq)
           uri == cb.uri
           b == cb.batch
           rejected == cb.library = "rejected"
           queue == IF Settles(batches[b], rejected)
                    THEN Append(Tail(mq), AllCallback(b, IF rejected THEN "rejected" ELSE "fulfilled"))
                    ELSE Tail(mq)
       IN  /\ mq' = queue
           /\ IF cb.library # "library"
              THEN /\ batches' = [batches EXCEPT ![b] = Settle(@, rejected)]
                   /\ out' = <<>>
                   /\ step' = [op |-> "validateMany", uri |-> uri, batch |-> b, library |-> cb.library]
                   /\ UNCHANGED << codeActions, published, noConfigReported, configErrorReported >>
              ELSE LET v == validate(uri, Document(cb), outcome)
                       h == RunHandlers(manyErrorHandlers, v.error, uri, Stores(0, <<>>))
                       handled == h.status # 0
                       attempt == IF ~v.threw THEN StatusOk
                                  ELSE IF handled THEN h.status ELSE StatusError
                       after == IF ~v.threw THEN batches[b]
                                ELSE IF handled THEN [batches[b] EXCEPT !.status = h.status]
                                ELSE [batches[b] EXCEPT !.status = StatusError,
                                                        !.tracker = @ \cup {getMessage(v.error, uri)}]
                   IN  /\ codeActions' = [codeActions EXCEPT ![uri] = v.edits]
                       /\ published' = [published EXCEPT ![uri] = v.published]
                       /\ batches' = [batches EXCEPT ![b] =
                                         Settle([after EXCEPT !.worst = Max(@, attempt)], FALSE)]
                       /\ IF ~v.threw
                          THEN /\ out' = v.sent
                               /\ UNCHANGED << noConfigReported, configErrorReported >>
                          ELSE /\ out' = h.sent
                               /\ noConfigReported' = h.noConfigReported
                               /\ configErrorReported' = h.configErrorReported
                       /\ step' = [op |-> "validateMany", uri |-> uri, batch |-> b, library |-> cb.library,
                                   threw |-> v.threw, error |-> v.error, attempt |-> attempt,
                                   outcome |-> outcome, document |-> Document(cb),
                                   before |-> published[uri]]
    /\ UNCHANGED << documents, settings, document2Library, promises >>

\* The continuation of Promise.all without the flush on the rejection path.
PromiseAllCallbackUnflushed ==
    /\ mq # <<>>
    /\ Head(mq).kind = "all"
    /\ mq' = Tail(mq)
    /\ LET b == Head(mq).batch
           batch == batches[b]
           flush == [type |-> "sendErrors", messages |-> batch.tracker]
       IN  /\ IF Head(mq).library = "fulfilled"
              THEN out' = << flush,
                             StatusNotification(IF batch.status # 0 THEN batch.status ELSE StatusOk) >>
              ELSE out' = << [type |-> "console.warn", message |-> "Validating all open documents failed."],
                             StatusNotification(StatusError) >>
           /\ batches' = [batches EXCEPT ![b] =
                             IF batch.remaining = 0 THEN NoBatch ELSE [batch EXCEPT !.state = "done"]]
           /\ step' = [op |-> "Promise.all", batch |-> b, settled |-> Head(mq).library,
                       worst |-> batch.worst]
    /\ UNCHANGED << documents, settings, document2Library, promises, codeActions,
                    noConfigReported, configErrorReported, published >>

\* Promise.all(promises).then(onFulfilled, onRejected)
PromiseAllCallback ==
    /\ mq # <<>>
    /\ Head(mq).kind = "all"
    /\ mq' = Tail(mq)
    /\ LET b == Head(mq).batch
           batch == batches[b]
           flush == [type |-> "sendErrors", messages |-> batch.tracker]
       IN  /\ IF Head(mq).library = "fulfilled"
              THEN out' = << flush,
                             StatusNotification(IF batch.status # 0 THEN batch.status ELSE StatusOk) >>
              ELSE out' = << flush,
                             [type |-> "console.warn", message |-> "Validating all open documents failed."],
                             StatusNotification(StatusError) >>
           /\ batches' = [batches EXCEPT ![b] =
                             IF batch.remaining = 0 THEN NoBatch ELSE [batch EXCEPT !.state = "done"]]
           /\ step' = [op |-> "Promise.all", batch |-> b, settled |-> Head(mq).library,
                       worst |-> batch.worst]
    /\ UNCHANGED << documents, settings, document2Library, promises, codeActions,
                    noConfigReported, configErrorReported, published >>

\* documents.forEach of validateMany: st.count attempts pushed so far.
RECURSIVE Attempts(_, _, _)
Attempts(st, docs, b) ==
    IF docs = <<>> THEN st
    ELSE IF ignoreTextDocument(Head(docs))
    THEN Attempts(st, Tail(docs), b)
    ELSE Attempts([Then(st, document2Library[Head(docs).uri], Callback("validateMany", Head(docs).uri, b))
                      EXCEPT !.count = @ + 1],
                  Tail(docs), b)

Free == {b \in BatchIds : batches[b].state = "free"}

\* validateMany(documents.all()): the effect on promises, mq and batches.
validateMany ==
    /\ Free # {}
    /\ \A i \in 1..Len(documents) :
           ~ignoreTextDocument(documents[i]) => HasRoom(document2Library[documents[i].uri])
    /\ LET b == CHOOSE c \in Free : \A d \in Free : c <= d
           st == Attempts([promises |-> promises, mq |-> mq, count |-> 0], documents, b)
       IN  /\ promises' = st.promises
           /\ mq' = IF st.count = 0 THEN Append(st.mq, AllCallback(b, "fulfilled")) ELSE st.mq
           /\ batches' = [batches EXCEPT ![b] =
                             [ state |-> IF st.count = 0 THEN "settled" ELSE "waiting",
                               status |-> 0, tracker |-> {}, remaining |-> st.count, worst |-> 0 ]]

\* onDidChangeConfiguration with the reset of onDidChangeWatchedFiles.
onDidChangeConfigurationReset(run) ==
    /\ mq = <<>>
    /\ settings' = run
    /\ noConfigReported' = {}
    /\ validateMany
    /\ out' = <<>>
    /\ step' = [op |-> "onDidChangeConfiguration"]
    /\ UNCHANGED << documents, document2Library, codeActions, configErrorReported, published >>

onDidChangeConfiguration(run) ==
    /\ mq = <<>>
    /\ settings' = run
    /\ validateMany
    /\ out' = <<>>
    /\ step' = [op |-> "onDidChangeConfiguration"]
    /\ UNCHANGED << documents, document2Library, codeActions, noConfigReported,
                    configErrorReported, published >>

\* onDidChangeWatchedFiles emptying configErrorReported as it does
\* noConfigReported.
onDidChangeWatchedFilesWholesale(changes, probed, thrown) ==
    /\ mq = <<>>
    /\ noConfigReported' = {}
    /\ configErrorReported' = {}
    /\ validateMany
    /\ out' = <<>>
    /\ step' = [op |-> "onDidChangeWatchedFiles", changes |-> changes, probed |-> probed,
                thrown |-> thrown, revalidates |-> TRUE]
    /\ UNCHANGED << documents, settings, document2Library, codeActions, published >>

\* params.changes.forEach of onDidChangeWatchedFiles over the store reported:
\* a changed path with an entry is probed with the library of its entry; the
\* constructor throws for the paths in thrown, which ends the handler, and
\* the probe run succeeds for the paths in probed, which deletes the entry.
RECURSIVE Probe(_, _, _, _)
Probe(reported, changes, probed, thrown) ==
    IF changes = <<>> THEN [reported |-> reported, threw |-> FALSE]
    ELSE IF Head(changes) \notin reported THEN Probe(reported, Tail(changes), probed, thrown)
    ELSE IF Head(changes) \in thrown THEN [reported |-> reported, threw |-> TRUE]
    ELSE Probe(IF Head(changes) \in probed THEN reported \ {Head(changes)} ELSE reported,
               Tail(changes), probed, thrown)

\* connection.onDidChangeWatchedFiles: changes are the changed paths in the
\* order of the event; when a constructor throws the handler ends there,
\* before validateMany.
onDidChangeWatchedFiles(changes, probed, thrown) ==
    /\ mq = <<>>
    /\ noConfigReported' = {}
    /\ LET result == Probe(configErrorReported, changes, probed, thrown)
       IN  /\ configErrorReported' = result.reported
           /\ IF result.threw
              THEN UNCHANGED << promises, mq, batches >>
              ELSE validateMany
           /\ step' = [op |-> "onDidChangeWatchedFiles", changes |-> changes, probed |-> probed,
                       thrown |-> thrown, revalidates |-> ~result.threw]
    /\ out' = <<>>
    /\ UNCHANGED << documents, settings, document2Library, codeActions, published >>

\* ------------------------------------------------------------ requests

\* TextDocument.positionAt: the position of an offset in the text the
\* document has now, which the model does not spell out.
positionAt(textDocument, offset) == << "positionAt", textDocument.version, offset >>

createTextEdit(textDocument, editInfo) ==
    [ range |-> << positionAt(textDocument, editInfo.edit.range[1]),
                   positionAt(textDocument, editInfo.edit.range[2]) >>,
      newText |-> editInfo.edit.text ]

TextEdits(textDocument, fixes) ==
    [i \in 1..Len(fixes) |-> createTextEdit(textDocument, fixes[i])]

\* getLastEdit returning the first element.
getFirstEdit(array) == IF Len(array) = 0 THEN Undefined ELSE array[1]

getLastEdit(array) == IF Len(array) = 0 THEN Undefined ELSE array[Len(array)]

\* The same-rule list without the comparison of rule ids.
RECURSIVE SameFixesOfAnyRule(_, _, _)
SameFixesOfAnyRule(same, sorted, ruleId) ==
    IF sorted = <<>> THEN same
    ELSE IF ~overlaps(getLastEdit(same), Head(sorted))
         THEN SameFixesOfAnyRule(Append(same, Head(sorted)), Tail(sorted), ruleId)
         ELSE SameFixesOfAnyRule(same, Tail(sorted), ruleId)

\* The loop of onCodeAction over getAllSorted(): the same-rule list.
RECURSIVE SameFixes(_, _, _)
SameFixes(same, sorted, ruleId) ==
    IF sorted = <<>> THEN same
    ELSE IF Head(sorted).ruleId = ruleId /\ ~overlaps(getLastEdit(same), Head(sorted))
         THEN SameFixes(Append(same, Head(sorted)), Tail(sorted), ruleId)
         ELSE SameFixes(same, Tail(sorted), ruleId)

\* The same loop: the list of all fixes.
RECURSIVE AllFixes(_, _)
AllFixes(all, sorted) ==
    IF sorted = <<>> THEN all
    ELSE IF ~overlaps(getLastEdit(all), Head(sorted))
         THEN AllFixes(Append(all, Head(sorted)), Tail(sorted))
         ELSE AllFixes(all, Tail(sorted))

Command(title, command, uri, documentVersion, edits) ==
    [ title |-> title, command |-> command, uri |-> uri,
      documentVersion |-> documentVersion, edits |-> edits ]

\* The commands of connection.onCodeAction for an entry edits that has fixes
\* and a document that is open, sorted being what getAllSorted() returns.
CodeActions(uri, edits, diagnostics, textDocument, sorted) ==
    LET scoped == getScoped(edits, diagnostics)
        single == [i \in 1..Len(scoped) |->
                      Command(scoped[i].label, "eslint.applySingleFix", uri,
                              scoped[i].documentVersion, << createTextEdit(textDocument, scoped[i]) >>)]
    IN  IF Len(single) = 0 THEN single
        ELSE LET documentVersion == scoped[Len(scoped)].documentVersion
                 ruleId == scoped[Len(scoped)].ruleId
                 same == SameFixes(<<>>, sorted, ruleId)
                 all == AllFixes(<<>>, sorted)
             IN  single
                 \o (IF Len(same) > 1
                     THEN << Command(<<"Fix all", ruleId, "problems">>, "eslint.applySameFixes", uri,
                                     documentVersion, TextEdits(textDocument, same)) >>
                     ELSE <<>>)
                 \o (IF Len(all) > 1
                     THEN << Command(<<"Fix all auto-fixable problems">>, "eslint.applyAllFixes", uri,
                                     documentVersion, TextEdits(textDocument, all)) >>
                     ELSE <<>>)

\* connection.onCodeAction; createTextEdit throws when the document is not
\* in the store, and the request then fails.
onCodeAction(uri, diagnostics) ==
    /\ mq = <<>>
    /\ LET edits == codeActions[uri]
       IN  IF edits = <<>> \/ isEmpty(edits)
           THEN out' = << [type |-> "codeActions", result |-> <<>>] >>
           ELSE IF getScoped(edits, diagnostics) # <<>> /\ get(uri) = Undefined
           THEN out' = << [type |-> "requestFailed"] >>
           ELSE \E sorted \in getAllSorted(edits) :
                    out' = << [type |-> "codeActions",
                               result |-> CodeActions(uri, edits, diagnostics, get(uri), sorted)] >>
    /\ step' = [op |-> "onCodeAction", uri |-> uri, diagnostics |-> diagnostics]
    /\ UNCHANGED << documents, settings, document2Library, promises, mq, codeActions,
                    noConfigReported, configErrorReported, batches, published >>

\* connection.onRequest(AllFixesRequest.type, ...)
onAllFixesRequest(uri) ==
    /\ mq = <<>>
    /\ LET edits == codeActions[uri]
       IN  IF edits = <<>> \/ isEmpty(edits)
           THEN out' = << [type |-> "allFixes", result |-> Undefined] >>
           ELSE IF get(uri) = Undefined
           THEN out' = << [type |-> "requestFailed"] >>
           ELSE \E fixes \in getOverlapFree(edits) :
                    out' = << [type |-> "allFixes",
                               result |-> [ documentVersion |-> getDocumentVersion(edits),
                                            edits |-> TextEdits(get(uri), fixes) ]] >>
    /\ step' = [op |-> "onAllFixesRequest", uri |-> uri]
    /\ UNCHANGED << documents, settings, document2Library, promises, mq, codeActions,
                    noConfigReported, configErrorReported, batches, published >>

\* ------------------------------------------------------------ inputs

Edit(start, end, text) == [range |-> <<start, end>>, text |-> text]

\* What a rule's fix inserts.
FixText(ruleId) == IF ruleId = "semi" THEN ";" ELSE "'"

Problem(line, ruleId, fix) ==
    [ line |-> line, column |-> 1, endLine |-> -1, endColumn |-> -1,
      severity |-> 2, ruleId |-> ruleId, fix |-> fix ]

SeqsUpTo(S, n) == UNION { [1..k -> S] : k \in 0..n }

\* What the engine throws: no configuration (by template, by message), the
\* three shapes that name a config file, other messages, no message at all.
Errors ==
    { Error("no-config-found", "other", "", FALSE),
      Error(Null, "No ESLint configuration found.", "", FALSE),
      Error(Null, "other", "", FALSE),
      Error(Null, "other", "", TRUE),
      Error(Null, "none", "", FALSE) }
    \cup { Error(Null, "Cannot read config file", f, FALSE) : f \in ConfigPaths }
    \cup { Error(Null, "Configuration for rule", "/.eslintrc", FALSE),
           Error(Null, "Cannot find module", "/.eslintrc", FALSE) }

Throws == { Throw(at, e) : at \in {"construct", "execute"}, e \in Errors }

AFix == Problem(1, "semi", Edit(0, 1, FixText("semi")))

TheDocument == UriFile("/a.js")

Libraries == {"library", "null", "rejected"}

\* ------------------------------------------------------------ specifications

\* The validation pipeline of one document: it is opened and saved, settings
\* and watched-file events arrive, the engine reports nothing or throws.
Outcomes == { Report(<<>>) } \cup Throws

Range(seq) == { seq[i] : i \in 1..Len(seq) }

\* The changed paths of a watched-file event, each at most once, in any order.
ChangeLists ==
    { changes \in SeqsUpTo(ConfigPaths, Cardinality(ConfigPaths)) :
          \A i, j \in 1..Len(changes) : i # j => changes[i] # changes[j] }

Next ==
    \/ DidOpen(TheDocument, "javascript")
    \/ DidSave(TheDocument)
    \/ \E p \in PromiseIds : ResolveLibrary(p, "library")
    \/ \E outcome \in Outcomes : ValidateSingleCallback(outcome)
    \/ \E outcome \in Outcomes : ValidateManyCallback(outcome)
    \/ PromiseAllCallback
    \/ \E run \in {"onType", "onSave"} : onDidChangeConfiguration(run)
    \/ \E changes \in ChangeLists :
           \E probed \in SUBSET (Range(changes) \cap configErrorReported) :
               \E thrown \in SUBSET ((Range(changes) \cap configErrorReported) \ probed) :
                   onDidChangeWatchedFiles(changes, probed, thrown)

Spec == Init /\ [][Next]_vars

\* The documents of URIs without watched-file events: the engine reports
\* nothing, finds no configuration, or throws another error.
NoWatchedOutcomes ==
    { Report(<<>>),
      Throw("execute", Error("no-config-found", "other", "", FALSE)),
      Throw("execute", Error(Null, "No ESLint configuration found.", "", FALSE)),
      Throw("execute", Error(Null, "other", "", FALSE)) }

NextNoWatched ==
    \/ \E uri \in URIs : DidOpen(uri, "javascript")
    \/ \E uri \in URIs : DidSave(uri)
    \/ \E p \in PromiseIds : ResolveLibrary(p, "library")
    \/ \E outcome \in NoWatchedOutcomes : ValidateSingleCallback(outcome)
    \/ \E outcome \in NoWatchedOutcomes : ValidateManyCallback(outcome)
    \/ PromiseAllCallback
    \/ \E run \in {"onType", "onSave"} : onDidChangeConfiguration(run)

SpecNoWatched == Init /\ [][NextNoWatched]_vars

\* Batches: settings events over documents whose library is found, is not
\* found or fails to load; an engine that reports or throws one error of
\* each class.
BatchOutcomes ==
    { Report(<<>>),
      Throw("execute", Error(Null, "No ESLint configuration found.", "", FALSE)),
      Throw("execute", Error(Null, "Cannot read config file", "/.eslintrc", FALSE)),
      Throw("execute", Error(Null, "other", "", FALSE)) }

NextBatch ==
    \/ \E uri \in URIs : DidOpen(uri, "javascript")
    \/ \E p \in PromiseIds, outcome \in Libraries : ResolveLibrary(p, outcome)
    \/ \E outcome \in BatchOutcomes : ValidateManyCallback(outcome)
    \/ PromiseAllCallback
    \/ onDidChangeConfiguration("onSave")

SpecBatch == Init /\ [][NextBatch]_vars

\* The same on an event loop that runs every callback that is ready and
\* on which every library resolution ends.
SpecBatchFair ==
    /\ SpecBatch
    /\ WF_vars(\E outcome \in BatchOutcomes : ValidateManyCallback(outcome))
    /\ WF_vars(PromiseAllCallback)
    /\ \A p \in PromiseIds : SF_vars(\E outcome \in Libraries : ResolveLibrary(p, outcome))

\* One document from open to close and open again, validated as typed.

SessionOutcomes ==
    { Report(<<>>), Report(<< AFix >>),
      Throw("execute", Error(Null, "other", "", FALSE)),
      Throw("construct", Error(Null, "other", "", FALSE)) }

NextSession ==
    \/ \E languageId \in LanguageIds : DidOpen(TheDocument, languageId)
    \/ DidChangeContent(TheDocument)
    \/ DidSave(TheDocument)
    \/ DidClose(TheDocument)
    \/ \E p \in PromiseIds, outcome \in Libraries : ResolveLibrary(p, outcome)
    \/ \E outcome \in SessionOutcomes : ValidateSingleCallback(outcome)
    \/ \E outcome \in SessionOutcomes : ValidateManyCallback(outcome)
    \/ PromiseAllCallback
    \/ \E run \in {"onType", "onSave"} : onDidChangeConfiguration(run)
    \/ onAllFixesRequest(TheDocument)
    \/ \E diagnostics \in SeqsUpTo({makeDiagnostic(AFix)}, 1) : onCodeAction(TheDocument, diagnostics)

SpecSession == Init /\ [][NextSession]_vars

\* The fixes of one validation pass: the settings arrive, the document is
\* opened and validated once, with any report of up to MaxProblems fixable
\* problems, no two at the same place by the same rule, and the client asks
\* for code actions and for all fixes.
Ranges == { <<start, end>> \in (0..MaxOffset) \X (0..MaxOffset) : start <= end }

\* Where the problems are and which rule reports them: two of one rule, one
\* of another.
FixKeys == { <<1, "semi">>, <<2, "semi">>, <<1, "quotes">> }

FixProblems == { Problem(k[1], k[2], Edit(r[1], r[2], FixText(k[2]))) : k \in FixKeys, r \in Ranges }

FixOutcomes ==
    { Report(messages) :
        messages \in { m \in SeqsUpTo(FixProblems, MaxProblems) :
                          \A i, j \in 1..Len(m) :
                              i # j => computeKey(makeDiagnostic(m[i])) # computeKey(makeDiagnostic(m[j])) } }

ContextDiagnostics == { makeDiagnostic(problem) : problem \in FixProblems }

NextFixes ==
    \/ settings = Null /\ onDidChangeConfiguration("onType")
    \/ settings # Null /\ DidOpen(TheDocument, "javascript")
    \/ \E p \in PromiseIds : ResolveLibrary(p, "library")
    \/ mq # <<>> /\ \E outcome \in FixOutcomes : ValidateSingleCallback(outcome)
    \/ PromiseAllCallback
    \/ onAllFixesRequest(TheDocument)
    \/ mq = <<>> /\ \E diagnostics \in SeqsUpTo(ContextDiagnostics, MaxContext) :
           onCodeAction(TheDocument, diagnostics)

SpecFixes == Init /\ [][NextFixes]_vars

\* Close and re-open: once the settings are there the document is opened,
\* edited, closed and opened again while its library resolutions and its
\* validations are under way.
NextReopen ==
    \/ settings = Null /\ onDidChangeConfiguration("onType")
    \/ PromiseAllCallback
    \/ settings # Null /\ DidOpen(TheDocument, "javascript")
    \/ DidChangeContent(TheDocument)
    \/ DidClose(TheDocument)
    \/ \E p \in PromiseIds : ResolveLibrary(p, "library")
    \/ \E outcome \in SessionOutcomes : ValidateSingleCallback(outcome)

SpecReopen == Init /\ [][NextReopen]_vars

\* What validate records: the document is validated on open and, once its
\* library is loaded, again on every change, with any report of up to
\* MaxProblems problems: one place and rule with two fixes and without a
\* fix, the same place without a rule, another place, another rule.
RecordProblems ==
    { Problem(1, "semi", fix) : fix \in {Undefined, Edit(0, 0, ";"), Edit(0, 1, ";")} }
    \cup { Problem(1, Null, Edit(0, 1, ";")),
           Problem(2, "semi", Edit(0, 1, ";")),
           Problem(1, "quotes", Edit(0, 1, "'")) }

RecordOutcomes == { Report(messages) : messages \in SeqsUpTo(RecordProblems, MaxProblems) }

NextRecord ==
    \/ settings = Null /\ onDidChangeConfiguration("onType")
    \/ settings # Null /\ DidOpen(TheDocument, "javascript")
    \/ (\A p \in PromiseIds : promises[p].state # "pending") /\ DidChangeContent(TheDocument)
    \/ \E p \in PromiseIds : ResolveLibrary(p, "library")
    \/ mq # <<>> /\ \E outcome \in RecordOutcomes : ValidateSingleCallback(outcome)
    \/ PromiseAllCallback

SpecRecord == Init /\ [][NextRecord]_vars

\* The config files: two documents, one of them a config file, are opened,
\* edited and validated, singly and in the batches of watched-file events;
\* the engine reports or cannot read one of the config files.
ConfigOutcomes ==
    { Report(<<>>) }
    \cup { Throw("execute", Error(Null, "Cannot read config file", f, FALSE)) : f \in ConfigPaths }

NextConfig ==
    \/ settings = Null /\ onDidChangeConfiguration("onType")
    \/ settings # Null /\ \E uri \in URIs : DidOpen(uri, "javascript")
    \/ \E uri \in URIs : DidChangeContent(uri)
    \/ \E p \in PromiseIds : ResolveLibrary(p, "library")
    \/ \E outcome \in ConfigOutcomes : ValidateSingleCallback(outcome)
    \/ \E outcome \in ConfigOutcomes : ValidateManyCallback(outcome)
    \/ PromiseAllCallback
    \/ \E changes \in ChangeLists :
           \E probed \in SUBSET (Range(changes) \cap configErrorReported) :
               \E thrown \in SUBSET ((Range(changes) \cap configErrorReported) \ probed) :
                   onDidChangeWatchedFiles(changes, probed, thrown)

SpecConfig == Init /\ [][NextConfig]_vars

\* The chain of handlers: the document is opened, edited and validated,
\* singly and in the batches of settings events; the engine reports, or
\* throws an error for one handler, for two of them (the no-config template
\* on a message that names a config file), or for none.
ChainOutcomes ==
    { Report(<<>>) }
    \cup { Throw("execute", Error(template, shape, file, FALSE)) :
              template \in {"no-config-found", Null},
              <<shape, file>> \in { <<"Cannot read config file", "/.eslintrc">>, <<"other", "">> } }

NextChain ==
    \/ DidOpen(TheDocument, "javascript")
    \/ DidChangeContent(TheDocument)
    \/ \E p \in PromiseIds : ResolveLibrary(p, "library")
    \/ \E outcome \in ChainOutcomes : ValidateSingleCallback(outcome)
    \/ \E outcome \in ChainOutcomes : ValidateManyCallback(outcome)
    \/ PromiseAllCallback
    \/ onDidChangeConfiguration("onType")

SpecChain == Init /\ [][NextChain]_vars

\* ------------------------------------------------------------ properties

NoConfig(error) ==
    error.messageTemplate = "no-config-found"
        \/ error.message.shape = "No ESLint configuration found."

NamesConfigFile(error) ==
    error.message.shape \in {"Cannot read config file", "Configuration for rule", "Cannot find module"}

Sent(type) == SelectSeq(out, LAMBDA m : m.type = type)

NoConfigRequests(sent, uri) ==
    Len(SelectSeq(sent, LAMBDA m : m.type = "noConfig" /\ m.uri = uri))

Validated(s) ==
    s.op \in {"validateSingle", "validateMany"} /\ s.library = "library"

BatchStarts ==
    \E b \in BatchIds : batches[b].state = "free" /\ batches'[b].state # "free"

\* C1: the status a batch publishes once all its attempts have settled
\* normally is the worst outcome of its attempts under ok < warn < error,
\* and ok when no attempt failed, whatever the order of the attempts.
BatchStatusIsWorst ==
    (step.op = "Promise.all" /\ step.settled = "fulfilled")
        => out[Len(out)] = StatusNotification(IF step.worst = 0 THEN StatusOk ELSE step.worst)

\* C2: without watched-file events a no-config request for a uri is sent
\* only by the step that first records the uri in noConfigReported, that
\* step sends exactly one, the store never loses a uri, and every
\* validation that ends in a no-config error yields warn.
NoConfigRequestOnce ==
    [][ /\ noConfigReported \subseteq noConfigReported'
        /\ \A u \in URIs :
               NoConfigRequests(out', u) = IF u \in noConfigReported' \ noConfigReported THEN 1 ELSE 0
        /\ (Validated(step') /\ step'.threw /\ NoConfig(step'.error))
               => /\ step'.uri \in noConfigReported'
                  /\ step'.op = "validateSingle" => out'[Len(out')] = StatusNotification(StatusWarn)
                  /\ step'.op = "validateMany" => step'.attempt = StatusWarn ]_vars

\* C2, its case: a no-config error for a uri reported before sends nothing
\* and is answered with warn.
NoConfigRepeated ==
    /\ step.op = "validateSingle" /\ step.library = "library" /\ step.threw
    /\ NoConfig(step.error)
    /\ out = << StatusNotification(StatusWarn) >>
    /\ step.uri \in noConfigReported

\* C3: once the close of a document has been handled, codeActions holds no
\* entry for its uri.
ClosedDocumentHasNoFixes ==
    step.op = "onDidClose" => codeActions[step.uri] = <<>>

\* C4 as stated: once a watched-file event has been handled both dedup
\* stores are empty.
WatchedFilesClearBothStores ==
    step.op = "onDidChangeWatchedFiles" => noConfigReported = {} /\ configErrorReported = {}

\* C4: a watched-file event empties noConfigReported; configErrorReported
\* loses exactly the changed paths that had an entry and whose probe run
\* succeeded, up to the first changed path with an entry whose constructor
\* throws; the batch starts unless a constructor threw.
WatchedFilesReset ==
    [][ step'.op = "onDidChangeWatchedFiles"
            => LET changes == step'.changes
                   Stops == { i \in 1..Len(changes) :
                                 changes[i] \in configErrorReported \cap step'.thrown }
                   stop == IF Stops = {} THEN Len(changes) + 1
                           ELSE CHOOSE i \in Stops : \A j \in Stops : i <= j
               IN  /\ noConfigReported' = {}
                   /\ configErrorReported' =
                          configErrorReported \ { changes[i] : i \in { j \in 1..(stop - 1) :
                                                                         changes[j] \in step'.probed } }
                   /\ step'.revalidates <=> Stops = {}
                   /\ step'.revalidates => BatchStarts ]_vars

\* C4, its case: a watched-file event after which one reported config file
\* has lost its entry and another keeps it.
WatchedFilesKeptAnEntry ==
    /\ step.op = "onDidChangeWatchedFiles"
    /\ step.revalidates
    /\ step.probed # {}
    /\ configErrorReported # {}
    /\ documents # <<>>

\* C5 as stated: a settings event resets the dedup state before its batch.
SettingsResetDedup ==
    [][ step'.op = "onDidChangeConfiguration"
            => noConfigReported' = {} /\ configErrorReported' = {} ]_vars

\* C5: a settings event starts a batch and leaves both dedup stores as they
\* were, so a no-config error of that batch for a uri reported before sends
\* no request; only a watched-file event empties noConfigReported.
SettingsKeepDedup ==
    [][ /\ step'.op = "onDidChangeConfiguration"
            => /\ noConfigReported' = noConfigReported
               /\ configErrorReported' = configErrorReported
               /\ BatchStarts
        /\ (step'.op = "validateMany" /\ step'.library = "library" /\ step'.threw
                /\ NoConfig(step'.error) /\ step'.uri \in noConfigReported)
            => NoConfigRequests(out', step'.uri) = 0
        /\ (noConfigReported # {} /\ noConfigReported' = {})
            => step'.op = "onDidChangeWatchedFiles" ]_vars

\* C5, its case: a batch attempt, under settings, that ends in a no-config
\* error for a uri reported before and sends nothing.
SettingsBatchRepeatsNoConfig ==
    /\ step.op = "validateMany" /\ step.library = "library" /\ step.threw
    /\ NoConfig(step.error)
    /\ settings # Null
    /\ out = <<>>
    /\ step.uri \in noConfigReported

\* C6: a single validation with an engine sends exactly one status, last:
\* ok after the diagnostics when the engine succeeds; when it throws, warn
\* for a no-config error, else warn for an error naming a config file, else
\* error, and no diagnostics.
SingleValidationStatus ==
    (step.op = "validateSingle" /\ step.library = "library")
        => /\ Len(Sent("status")) = 1
           /\ out[Len(out)].type = "status"
           /\ ~step.threw => /\ out[Len(out)].state = StatusOk
                             /\ Len(out) = 2 /\ out[1].type = "diagnostics" /\ out[1].uri = step.uri
           /\ step.threw => /\ Sent("diagnostics") = <<>>
                            /\ out[Len(out)].state =
                                   IF NoConfig(step.error) THEN StatusWarn
                                   ELSE IF NamesConfigFile(step.error) /\ step.error.message.shape # "none"
                                   THEN StatusWarn
                                   ELSE StatusError

\* C6, its case: an engine error naming a config file, answered with warn.
SingleValidationWarned ==
    /\ step.op = "validateSingle" /\ step.library = "library" /\ step.threw
    /\ NamesConfigFile(step.error) /\ ~NoConfig(step.error)
    /\ out[Len(out)] = StatusNotification(StatusWarn)

\* The fixes recorded for the document, and a fix replacing [start, end).
Registry == codeActions[TheDocument]

Fixes == { Registry[i][2] : i \in 1..Len(Registry) }

AutoFix(start, end) ==
    [ label |-> <<"Fix this", "semi", "problem">>, documentVersion |-> 1,
      ruleId |-> "semi", edit |-> Edit(start, end, ";") ]

IsSubsequence(r, s) ==
    \E f \in [1..Len(r) -> 1..Len(s)] :
        /\ \A i \in 1..Len(r) : r[i] = s[f[i]]
        /\ \A i \in 1..(Len(r) - 1) : f[i] < f[i + 1]

\* Adjacent fixes, and adjacent text edits, that do not overlap.
FixesApart(fixes) ==
    \A i \in 1..(Len(fixes) - 1) : fixes[i].edit.range[2] <= fixes[i + 1].edit.range[1]

EditsApart(textEdits) ==
    \A i \in 1..(Len(textEdits) - 1) : textEdits[i].range[2][3] <= textEdits[i + 1].range[1][3]

\* C7: whatever fixes are recorded, in what getOverlapFree() returns each
\* element starts at or after the end of the one before it, the result is a
\* subsequence of what getAllSorted() returned and begins with its first
\* element; of fixes [10,20) and [15,25) only the one at 10 is returned; and
\* the edits of an all-fixes response are apart in the same way.
OverlapFreeIsOverlapFree ==
    /\ \A sorted \in getAllSorted(Registry) :
           LET result == OverlapFree(sorted)
           IN  /\ FixesApart(result)
               /\ IsSubsequence(result, sorted)
               /\ sorted # <<>> => result # <<>> /\ result[1] = sorted[1]
    /\ \A sorted \in sort(<< AutoFix(15, 25), AutoFix(10, 20) >>) :
           OverlapFree(sorted) = << AutoFix(10, 20) >>
    /\ (step.op = "onAllFixesRequest" /\ out[1].type = "allFixes" /\ out[1].result # Undefined)
           => EditsApart(out[1].result.edits)

\* C7, its case: an all-fixes response that left out one of three recorded
\* fixes because it overlaps the one before it.
OverlapFreeDroppedAFix ==
    /\ step.op = "onAllFixesRequest"
    /\ Len(Registry) = 3
    /\ out[1].type = "allFixes" /\ out[1].result # Undefined
    /\ Len(out[1].result.edits) = 2
    /\ \E a, b \in Fixes : a.edit.range[1] <= b.edit.range[1] /\ b.edit.range[1] < a.edit.range[2]

\* The order of getAllSorted as the text has it: a before b.
Precedes(a, b) ==
    \/ a.edit.range[1] < b.edit.range[1]
    \/ /\ a.edit.range[1] = b.edit.range[1]
       /\ \/ a.edit.range[2] = 0 /\ b.edit.range[2] # 0
          \/ (a.edit.range[2] = 0 <=> b.edit.range[2] = 0) /\ a.edit.range[2] <= b.edit.range[2]

\* C8: getAllSorted() returns the recorded fixes, each once, in ascending
\* order of start, then end 0 first, then ascending end; and the comparator
\* never puts each of two recorded fixes before the other.
SortedByConsistentOrder ==
    /\ \A sorted \in getAllSorted(Registry) :
           /\ Len(sorted) = Len(Registry)
           /\ \A i \in 1..Len(Registry) : \E j \in 1..Len(sorted) : sorted[j] = Registry[i][2]
           /\ \A i, j \in 1..Len(sorted) : i < j => Precedes(sorted[i], sorted[j])
    /\ \A i, j \in 1..Len(Registry) :
           i # j => ~(compare(Registry[i][2], Registry[j][2]) < 0
                        /\ compare(Registry[j][2], Registry[i][2]) < 0)

Commands(name) == SelectSeq(out[1].result, LAMBDA c : c.command = name)

HasEntry(diagnostic) ==
    \E i \in 1..Len(Registry) : Registry[i][1] = computeKey(diagnostic)

Entry(diagnostic) ==
    Registry[CHOOSE i \in 1..Len(Registry) : Registry[i][1] = computeKey(diagnostic)][2]

\* The subsequence of sorted at the indices in picked.
RECURSIVE Pick(_, _)
Pick(sorted, picked) ==
    IF sorted = <<>> THEN <<>>
    ELSE LET rest == Pick(SubSeq(sorted, 1, Len(sorted) - 1), picked)
         IN  IF Len(sorted) \in picked THEN Append(rest, sorted[Len(sorted)]) ELSE rest

AllFixesAnswered ==
    /\ \A i \in 1..Len(Registry) : Registry[i][2].documentVersion = Registry[1][2].documentVersion
    /\ step.op = "onAllFixesRequest"
           => /\ out[1].type = "allFixes"
              /\ (out[1].result = Undefined) <=> (Registry = <<>>)
              /\ Registry # <<>>
                     => /\ out[1].result.documentVersion = Registry[1][2].documentVersion
                        /\ \E fixes \in getOverlapFree(Registry) :
                               out[1].result.edits = TextEdits(get(TheDocument), fixes)

\* C11: a batch in flight leads to its continuation, which sends exactly
\* one flush of the tracker and then exactly one status, error when
\* Promise.all was rejected; and an attempt whose engine succeeds publishes
\* its diagnostics whatever the other attempts of the batch did.
BatchEndsWithFlushAndStatus ==
    /\ [](step.op = "Promise.all"
             => /\ Len(Sent("sendErrors")) = 1 /\ out[1].type = "sendErrors"
                /\ Len(Sent("status")) = 1 /\ out[Len(out)].type = "status"
                /\ step.settled = "rejected" => out[Len(out)].state = StatusError)
    /\ []((step.op = "validateMany" /\ step.library = "library" /\ ~step.threw)
             => /\ Sent("diagnostics") = out /\ Len(out) = 1 /\ out[1].uri = step.uri
                /\ published[step.uri] = step.document)
    /\ \A b \in BatchIds :
           (batches[b].state \in {"waiting", "settled"}) ~> (step.op = "Promise.all" /\ step.batch = b)

\* C11, its case: a batch in which one document's engine threw an error no
\* handler matches and another document's diagnostics were published ends
\* with a flush of the one message and status error.
BatchEndedAfterOneFailure ==
    /\ step.op = "Promise.all" /\ step.settled = "fulfilled"
    /\ Cardinality(out[1].messages) = 1
    /\ out[2] = StatusNotification(StatusError)
    /\ \E u \in URIs : published[u] # NoDocument

\* C12: every failure to resolve or load the library of an opened document
\* is reported by a no-library request for that document, and no batch
\* orchestration fails because of it.
LibraryFailureReportedAndSkipped ==
    /\ (step.op = "document2Library" /\ step.library # "library")
           => \E i \in 1..Len(out) : out[i].type = "noLibrary" /\ out[i].uri = step.uri
    /\ step.op = "Promise.all" => step.settled = "fulfilled"

\* The problems of a report that recordCodeAction stores, by position, and
\* the key of the problem at a position.
Fixable(messages) ==
    { i \in 1..Len(messages) : messages[i].fix # Undefined /\ messages[i].ruleId # Null }

KeyOf(problem) == << makeDiagnostic(problem).range, problem.ruleId >>

\* C13: every registry entry has a rule and an edit and no two entries share
\* a key; after a pass the registry holds one entry per key of the pass's
\* fixable problems, never more entries than such keys, each entry with the
\* fix of the last problem of its key; problems with no fix or no rule leave
\* no entry.
RegistryHoldsLastFixPerKey ==
    /\ \A u \in URIs : \A i \in 1..Len(codeActions[u]) :
           /\ codeActions[u][i][2].ruleId # Null
           /\ codeActions[u][i][2].edit # Undefined
           /\ \A j \in 1..Len(codeActions[u]) : i # j => codeActions[u][i][1] # codeActions[u][j][1]
    /\ (step.op = "validateSingle" /\ step.library = "library" /\ ~step.threw)
           => LET messages == step.outcome.messages
                  edits == codeActions[step.uri]
                  Keys == { KeyOf(messages[i]) : i \in Fixable(messages) }
              IN  /\ Len(edits) <= Cardinality(Keys)
                  /\ { edits[i][1] : i \in 1..Len(edits) } = Keys
                  /\ \A i \in 1..Len(edits) :
                         LET last == CHOOSE k \in Fixable(messages) :
                                        /\ KeyOf(messages[k]) = edits[i][1]
                                        /\ \A l \in Fixable(messages) :
                                               KeyOf(messages[l]) = edits[i][1] => l <= k
                         IN  /\ edits[i][2].edit = messages[last].fix
                             /\ edits[i][2].ruleId = messages[last].ruleId
                             /\ edits[i][2].documentVersion = step.document.version

\* C13, its case: a pass over three problems, the first and the last fixable
\* with the same range and rule and different fixes, the second without a
\* fix, leaves the one entry with the last fix.
RegistryOverwroteAFix ==
    /\ step.op = "validateSingle" /\ step.library = "library" /\ ~step.threw
    /\ Len(step.outcome.messages) = 3
    /\ Fixable(step.outcome.messages) = {1, 3}
    /\ KeyOf(step.outcome.messages[1]) = KeyOf(step.outcome.messages[3])
    /\ step.outcome.messages[1].fix # step.outcome.messages[3].fix
    /\ Len(codeActions[step.uri]) = 1
    /\ codeActions[step.uri][1][2].edit = step.outcome.messages[3].fix

\* C14: no attempt of a batch validates its document after the batch's
\* continuation has sent the flush and the status.
NoAttemptAfterBatchStatus ==
    [][(step'.op = "validateMany" /\ step'.library = "library")
           => batches[step'.batch].state # "done"]_vars

\* C15: for every URI at most one library resolution is pending.
OneResolutionPerUri ==
    \A u \in URIs :
        Cardinality({ p \in PromiseIds : promises[p].state = "pending" /\ promises[p].uri = u }) <= 1

\* C16: the diagnostics published for a URI are those of the pass that ran
\* last, whenever it was triggered: a single-document pass whose engine
\* reports publishes the diagnostics of the document object it holds over
\* whatever was published before.
LastCompletedPassIsPublished ==
    (step.op = "validateSingle" /\ step.library = "library" /\ ~step.threw)
        => /\ published[step.uri] = step.document
           /\ Len(Sent("diagnostics")) = 1
           /\ Sent("diagnostics")[1].uri = step.uri

\* C16, its case: a pass triggered before the document was closed and
\* re-opened publishes, from the document object of before the close, over
\* the diagnostics a pass triggered after the re-open has published.
StaleDiagnosticsPublishedLast ==
    /\ step.op = "validateSingle" /\ step.library = "library" /\ ~step.threw
    /\ step.document.object = "closed"
    /\ step.before.object = "open"
    /\ IsOpen(step.uri)
    /\ published[step.uri] = step.document

\* C17: closing a document leaves every pending library resolution pending
\* and every validation waiting on one in place; and a waiting validation of
\* a document closed since, once its library is there and the engine
\* reports, records the report's fixes and sends diagnostics and a status as
\* for an open document.
CloseDoesNotCancel ==
    /\ [][step'.op = "onDidClose"
             => \A p \in PromiseIds :
                    promises[p].state = "pending"
                        => /\ promises'[p].state = "pending"
                           /\ Len(promises'[p].waiting) = Len(promises[p].waiting)]_vars
    /\ []((step.op = "validateSingle" /\ step.library = "library" /\ ~step.threw
               /\ step.document.object = "closed")
             => /\ codeActions[step.uri]
                       = RecordAll(<<>>, step.document.version, step.outcome.messages)
                /\ Sent("diagnostics") # <<>>
                /\ Sent("status") = << StatusNotification(StatusOk) >>)

\* C17, its case: the document is closed and not open again, the empty
\* diagnostics of the close were the last published, and the validation
\* triggered before the close runs: the registry has a fix again and
\* diagnostics and a status are sent for the closed document.
ClosedDocumentValidated ==
    /\ step.op = "validateSingle" /\ step.library = "library" /\ ~step.threw
    /\ step.document.object = "closed"
    /\ ~IsOpen(step.uri)
    /\ step.before = NoDocument
    /\ codeActions[step.uri] # <<>>
    /\ published[step.uri] = step.document
    /\ Sent("diagnostics") # <<>> /\ Sent("status") # <<>>

\* C18: a validation, single or in a batch, whose engine throws an error
\* naming a config file logs it only when the file has no entry in
\* configErrorReported, then exactly once, with one message to the user
\* exactly when no open document is the file, and gives the file its entry;
\* with an entry it logs and shows nothing. A watched-file event removes
\* only changed paths that had an entry and whose probe succeeded; no other
\* step changes the store.
ConfigErrorReportedOncePerPath ==
    [][ /\ (step'.op \in {"validateSingle", "validateMany"} /\ step'.library = "library"
               /\ step'.threw /\ NamesConfigFile(step'.error))
            => LET filename == ConfigFileName(step'.error)
                   logged == SelectSeq(out', LAMBDA m : m.type = "console.warn")
                   shown == SelectSeq(out', LAMBDA m : m.type = "showInformationMessage")
               IN  /\ configErrorReported' = configErrorReported \cup {filename}
                   /\ Len(logged) = IF filename \in configErrorReported THEN 0 ELSE 1
                   /\ Len(shown) = IF filename \in configErrorReported
                                      \/ \E i \in 1..Len(documents) :
                                             documents[i].uri = UriFile(filename)
                                   THEN 0 ELSE 1
        /\ step'.op = "onDidChangeWatchedFiles"
            => /\ configErrorReported' \subseteq configErrorReported
               /\ (configErrorReported \ configErrorReported')
                      \subseteq (Range(step'.changes) \cap step'.probed)
        /\ configErrorReported' # configErrorReported
            => step'.op \in {"validateSingle", "validateMany", "onDidChangeWatchedFiles"} ]_vars

\* C18, its case: with both documents open, a validation of the document
\* that is not the config file throws the error naming a config file that
\* has its entry already, and nothing is logged or shown.
ConfigErrorRepeatedSilently ==
    /\ step.op \in {"validateSingle", "validateMany"} /\ step.library = "library"
    /\ step.threw /\ NamesConfigFile(step.error)
    /\ ConfigFileName(step.error) \in configErrorReported
    /\ step.uri = TheDocument
    /\ Len(documents) = 2
    /\ Sent("console.warn") = <<>> /\ Sent("showInformationMessage") = <<>>

\* The recorded fixes of one rule, as a registry entry of their own.
OfRule(edits, ruleId) == SelectSeq(edits, LAMBDA e : e[2].ruleId = ruleId)

\* C19: on the fixes a validation has recorded, for every order
\* getAllSorted() may return and every rule, the same-rule list is the
\* overlap-free scan of the fixes of the rule in that order, and it is a
\* result of getOverlapFree() on the recorded fixes of the rule alone; for
\* every context of up to MaxContext + 1 diagnostics the response has the
\* same-rule command, when the list has two fixes or more, for the rule of
\* the last context diagnostic that has an entry; and so has every response
\* sent.
SameFixesAreOverlapFreeOfRule ==
    /\ Validated(step)
           => \A ruleId \in RuleIds : \A sorted \in getAllSorted(Registry) :
                  /\ SameFixes(<<>>, sorted, ruleId)
                         = OverlapFree(SelectSeq(sorted, LAMBDA f : f.ruleId = ruleId))
                  /\ SameFixes(<<>>, sorted, ruleId) \in getOverlapFree(OfRule(Registry, ruleId))
    /\ (Validated(step) /\ IsOpen(TheDocument))
           => \A diagnostics \in SeqsUpTo(ContextDiagnostics, MaxContext + 1) :
              \A sorted \in getAllSorted(Registry) :
                  LET hits == SelectSeq(diagnostics, HasEntry)
                      commands == CodeActions(TheDocument, Registry, diagnostics,
                                              get(TheDocument), sorted)
                      same == SelectSeq(commands, LAMBDA c : c.command = "eslint.applySameFixes")
                  IN  IF hits = <<>> THEN commands = <<>>
                      ELSE LET target == Entry(hits[Len(hits)]).ruleId
                               fixes == SameFixes(<<>>, sorted, target)
                           IN  /\ Len(same) = IF Len(fixes) > 1 THEN 1 ELSE 0
                               /\ \A i \in 1..Len(same) :
                                      /\ same[i].title = <<"Fix all", target, "problems">>
                                      /\ same[i].edits = TextEdits(get(TheDocument), fixes)
    /\ (step.op = "onCodeAction" /\ out[1].type = "codeActions")
           => \A i \in 1..Len(Commands("eslint.applySameFixes")) :
                  LET hits == SelectSeq(step.diagnostics, HasEntry)
                      target == Entry(hits[Len(hits)]).ruleId
                  IN  \E fixes \in getOverlapFree(OfRule(Registry, target)) :
                          /\ Commands("eslint.applySameFixes")[i].title[2] = target
                          /\ Commands("eslint.applySameFixes")[i].edits
                                 = TextEdits(get(TheDocument), fixes)

\* C19, its case: three fixes are recorded, two of them of the rule of the
\* context diagnostic, and the response has the same-rule command with the
\* edits of these two.
SameFixesLeftOutARule ==
    /\ step.op = "onCodeAction" /\ out[1].type = "codeActions"
    /\ Len(Registry) = 3
    /\ Len(Commands("eslint.applySameFixes")) = 1
    /\ Len(Commands("eslint.applySameFixes")[1].edits) = 2
    /\ Len(OfRule(Registry, Commands("eslint.applySameFixes")[1].title[2])) = 2

\* C20 as stated: after a validation whose engine throws, the document has
\* no recorded fix, nothing was published by the pass and what was
\* published before stays.
FailedValidationClearsFixes ==
    (Validated(step) /\ step.threw)
        => /\ codeActions[step.uri] = <<>>
           /\ Sent("diagnostics") = <<>>
           /\ published[step.uri] = step.before

\* C20: validate deletes the document's fixes after the engine object is
\* constructed and before executeOnText. After a validation whose
\* executeOnText throws the document has no recorded fix; after one whose
\* constructor throws it has the fixes it had; either way the pass publishes
\* no diagnostics and what was published stays. A pass that succeeds leaves
\* only fixes of its own document version.
FixesClearedBeforeExecute ==
    [][ Validated(step')
            => IF step'.threw
               THEN /\ codeActions'[step'.uri] =
                           IF step'.outcome.at = "execute" THEN <<>> ELSE codeActions[step'.uri]
                    /\ SelectSeq(out', LAMBDA m : m.type = "diagnostics") = <<>>
                    /\ published'[step'.uri] = published[step'.uri]
               ELSE \A i \in 1..Len(codeActions'[step'.uri]) :
                        codeActions'[step'.uri][i][2].documentVersion = step'.document.version ]_vars

\* C20, its case: a pass has published diagnostics for the open document,
\* and a later pass throws from executeOnText: no fix is recorded and the
\* diagnostics published are those of the earlier pass.
FailedValidationLeftDiagnostics ==
    /\ Validated(step) /\ step.threw
    /\ step.outcome.at = "execute"
    /\ step.before # NoDocument
    /\ published[step.uri] = step.before
    /\ codeActions[step.uri] = <<>>

\* C21: a validation whose engine throws a no-config error leaves
\* configErrorReported as it was and sends no log, no information message
\* and no error message, whatever else the error matches; one whose engine
\* throws another error that names a config file leaves noConfigReported as
\* it was and sends no no-config request and no error message; and in a
\* batch neither adds a message to the tracker.
ChainStopsAtFirstStatus ==
    [][ (Validated(step') /\ step'.threw)
            => LET of(type) == SelectSeq(out', LAMBDA m : m.type = type)
                   tracked == step'.op = "validateMany"
                                  => batches'[step'.batch].tracker \subseteq batches[step'.batch].tracker
               IN  /\ NoConfig(step'.error)
                       => /\ configErrorReported' = configErrorReported
                          /\ of("console.warn") = <<>>
                          /\ of("showInformationMessage") = <<>>
                          /\ of("showErrorMessage") = <<>>
                          /\ Len(of("noConfig")) = IF step'.uri \in noConfigReported THEN 0 ELSE 1
                          /\ tracked
                   /\ (~NoConfig(step'.error) /\ NamesConfigFile(step'.error))
                       => /\ noConfigReported' = noConfigReported
                          /\ of("noConfig") = <<>>
                          /\ of("showErrorMessage") = <<>>
                          /\ tracked ]_vars

\* C21, its case: the engine throws an error with the no-config template
\* whose message names a config file that has no entry; the no-config
\* request and the status are all that is sent and the file still has no
\* entry.
NoConfigHandledAlone ==
    /\ Validated(step) /\ step.threw
    /\ NoConfig(step.error) /\ NamesConfigFile(step.error)
    /\ ConfigFileName(step.error) \notin configErrorReported
    /\ Len(Sent("noConfig")) = 1
    /\ Sent("console.warn") = <<>> /\ Sent("showInformationMessage") = <<>>

====
